---- MODULE Spec2Model ----
(***************************************************************************)
(* Product-option persistence layer (app/lib/shop.server.js) behind the    *)
(* route action of app/routes/app._index.jsx, over the Prisma schema       *)
(* (VariantOption / VariantOptionValue).                                   *)
(*                                                                         *)
(* Every prisma call is one atomic storage step; a handler that awaits     *)
(* two prisma calls is two steps, and steps of different requests          *)
(* interleave (Spec).  SpecSeq runs the same handlers one call at a time.  *)
(*                                                                         *)
(* The page (Index, useOptions, useToast) is the client: its handlers      *)
(* start requests and its loader reads the options back (SpecClient); the  *)
(* toggles of useOptions are checked over every store (SpecStore), its    *)
(* addOption / updateOption / removeOptions and updateOptionObject over    *)
(* every store and argument (SpecUpsert), transformOptions over rows with  *)
(* and without type and position (SpecShape), and the sync effect over     *)
(* every store and reload (SpecSync).  SpecRequired loads options created  *)
(* with either isRequired, SpecEdit adds the toggles to the edit flow, and *)
(* SpecSearch is the debounced search of ProductSelectionModal.            *)
(***************************************************************************)
EXTENDS Integers, Sequences, FiniteSets, TLC

\* ------------------------------------------------------------------ bounds
MaxOptionId == 2      \* option ids (cuid) handed out in one run
MaxLen == 2           \* longest values[] / optionIds[] of a request
MaxSearches == 3      \* search-products submissions counted
MaxRequests == 3      \* requests started in one run

\* ----------------------------------------------------------------- domains
Procs == {"r1", "r2"}                 \* request slots: two requests may overlap
Shops == {"shopX", "shopY"}           \* admin.session.shop
NoShop == ""                          \* an absent (falsy) shop identifier
Names == {"Color", "Size"}
Types == {"text", "color"}
DefaultType == "text"                 \* type = "text" when the payload has none
NoType == ""                          \* a payload without optionType (undefined)
ValueStrs == {"Red", "Blue"}
OptionIds == 1..MaxOptionId
ValueOrder == <<"Red", "Blue">>       \* the value names, in one order

Range(s) == {s[i] : i \in 1..Len(s)}
SeqsUpTo(S, n) == UNION {[1..k -> S] : k \in 0..n}

VARIABLES
  options,        \* table variant_options: set of rows
  optionValues,   \* table variant_option_values: set of rows
  nextOptionId,   \* ids already handed out to options
  nextValueId,    \* ids already handed out to values
  pc,             \* per request: idle | updating | deleting | done
  req,            \* per request: the call and its locals
  res,            \* per request: what the call returned or threw
  before,         \* per request: the tables when the call started (SpecSeq)
  started,        \* requests started so far
  loaderData,     \* Index: what the loader last returned (useLoaderData)
  store,          \* useOptions: options, the client's copy
  isLoading,      \* Index: isLoading
  toastActive,    \* useToast: toastActive
  toastMessage,   \* useToast: toastMessage
  call,           \* the last operation on the client's copy, and the copy before it
  searchQuery,    \* ProductSelectionModal: searchQuery
  debounceTimer,  \* ProductSelectionModal: the timeout of the effect is pending
  searchPending,  \* a search-products submission is on its way
  sent            \* search-products submissions since the user last changed the query

vars == <<options, optionValues, nextOptionId, nextValueId, pc, req, res, before, started,
          loaderData, store, isLoading, toastActive, toastMessage, call,
          searchQuery, debounceTimer, searchPending, sent>>
db == <<options, optionValues, nextOptionId, nextValueId>>
modal == <<searchQuery, debounceTimer, searchPending, sent>>
client == <<loaderData, store, isLoading, toastActive, toastMessage, call, modal>>

\* ---------------------------------------------------------- values.map(...)
\* An entry of values[] is a raw string or an object {value, position, isActive}
\* whose position / isActive may be missing.
StrEntry(s) ==
  [isObj |-> FALSE, value |-> s, hasPosition |-> FALSE, position |-> 0,
   hasIsActive |-> FALSE, isActive |-> FALSE]
ObjEntry(v, hasP, pos, hasA, act) ==
  [isObj |-> TRUE, value |-> v, hasPosition |-> hasP, position |-> pos,
   hasIsActive |-> hasA, isActive |-> act]

\* value.value || value : a string has no .value; an object's falsy value ("")
\* falls through to the object itself, which is no String for Prisma.
EntryValueOk(e) == (~e.isObj) \/ e.value # ""
\* value.position || index
EntryPosition(e, index) ==
  IF e.isObj /\ e.hasPosition /\ e.position # 0 THEN e.position ELSE index
\* value.isActive !== undefined ? value.isActive : true
EntryIsActive(e) == IF e.isObj /\ e.hasIsActive THEN e.isActive ELSE TRUE

MapValues(values) ==
  [i \in 1..Len(values) |->
     [value |-> values[i].value,
      position |-> EntryPosition(values[i], i - 1),
      isActive |-> EntryIsActive(values[i])]]
ValuesValid(values) == \A i \in 1..Len(values) : EntryValueOk(values[i])

\* The route's values.map((value, index) => ({value, position: index, isActive: true}))
RouteValues(strs) ==
  [i \in 1..Len(strs) |-> ObjEntry(strs[i], TRUE, i - 1, TRUE, TRUE)]

\* ------------------------------------------------------------ the schema
\* Mutation: the (shop, name) index was never created.
NameTakenNoIndex(shop, name, exceptId) == FALSE
\* @@unique([shop, name])
NameTaken(shop, name, exceptId) ==
  \E o \in options : o.shop = shop /\ o.name = name /\ o.id # exceptId
\* Mutation: the (variantOptionId, value) index was never created.
ValueClashNoIndex(optionId, rows) == FALSE
\* @@unique([variantOptionId, value]) for rows about to be inserted under optionId
ValueClash(optionId, rows) ==
  \/ \E i, j \in 1..Len(rows) : i # j /\ rows[i].value = rows[j].value
  \/ \E i \in 1..Len(rows) : \E v \in optionValues :
       v.variantOptionId = optionId /\ v.value = rows[i].value
\* Mutation: the foreign key lacks ON DELETE CASCADE.
NoCascade(deletedIds) == optionValues
\* onDelete: Cascade
CascadeValues(deletedIds) ==
  {v \in optionValues : v.variantOptionId \notin deletedIds}

\* Mutation: value ids are numbered per option instead of freshly generated.
ReusedValueRows(optionId, rows) ==
  {[id |-> i, value |-> rows[i].value, position |-> rows[i].position,
    isActive |-> rows[i].isActive, variantOptionId |-> optionId] : i \in 1..Len(rows)}
\* values.create: every row gets a fresh id (@default(cuid())).
NewValueRows(optionId, rows) ==
  {[id |-> nextValueId + i, value |-> rows[i].value, position |-> rows[i].position,
    isActive |-> rows[i].isActive, variantOptionId |-> optionId] : i \in 1..Len(rows)}

ValuesOf(optionId) == {v \in optionValues : v.variantOptionId = optionId}

\* --------------------------------------------------------------- requests
NoReq ==
  [kind |-> "none", shop |-> NoShop, optionId |-> 0, name |-> "", type |-> "",
   values |-> <<>>, idsArray |-> <<>>, existingOptions |-> {}]
\* What a call returned (success) or threw (error); queries counts the prisma
\* calls it issued, removed the option ids its own deleteMany took out.
NoRes ==
  [success |-> FALSE, error |-> "", notFoundIds |-> <<>>, count |-> 0,
   deletedOptions |-> {}, removed |-> {}, optionId |-> 0, queries |-> 0,
   options |-> <<>>, thrownIn |-> ""]
\* An error thrown by a persistence function (thrownIn "call"), by the action
\* inside the try block of its actionType ("try") or outside it ("action").
Failure(msg, ids, q) ==
  [NoRes EXCEPT !.error = msg, !.notFoundIds = ids, !.queries = q, !.thrownIn = "call"]
Thrown(msg, where) == [NoRes EXCEPT !.error = msg, !.thrownIn = where]
\* useLoaderData(): nothing loaded yet
NoLoaderData == [loaded |-> FALSE, threw |-> FALSE, failed |-> FALSE, options |-> <<>>]
NoToast == [text |-> "", error |-> ""]
NoOption ==
  [id |-> 0, name |-> "", type |-> "", position |-> 0, isRequired |-> TRUE, values |-> <<>>]
\* An argument that was not passed (undefined), and one that was.
Undefined == [defined |-> FALSE, option |-> NoOption]
Passed(option) == [defined |-> TRUE, option |-> option]
NoIds == [isArray |-> TRUE, id |-> 0, list |-> <<>>]
NoCall ==
  [op |-> "none", optionId |-> 0, valueName |-> "", before |-> <<>>,
   arg |-> Undefined, ids |-> NoIds, names |-> <<>>, threw |-> FALSE, result |-> NoOption]
NoSnap == [options |-> {}, optionValues |-> {}]
Snap == [options |-> options, optionValues |-> optionValues]

Init ==
  /\ options = {}
  /\ optionValues = {}
  /\ nextOptionId = 0
  /\ nextValueId = 0
  /\ pc = [p \in Procs |-> "idle"]
  /\ req = [p \in Procs |-> NoReq]
  /\ res = [p \in Procs |-> NoRes]
  /\ before = [p \in Procs |-> NoSnap]
  /\ started = 0
  /\ loaderData = NoLoaderData
  /\ store = <<>>
  /\ isLoading = FALSE
  /\ toastActive = FALSE
  /\ toastMessage = NoToast
  /\ call = NoCall
  /\ searchQuery = ""
  /\ debounceTimer = FALSE
  /\ searchPending = FALSE
  /\ sent = 0

\* setOptions with a new array: Index renders again, options has a new
\* identity, and the effect of ProductSelectionModal clears its timeout and
\* sets a new one.
OptionsChanged ==
  /\ debounceTimer' = TRUE
  /\ UNCHANGED <<searchQuery, searchPending, sent>>

Finish(p, r) ==
  /\ pc' = [pc EXCEPT ![p] = "done"]
  /\ res' = [res EXCEPT ![p] = r]

\* A new request takes the first free slot (which slot is immaterial).
FirstFree(p) == p = "r1" \/ pc["r1"] # "idle"

\* track: calls are made one at a time, and the tables are recorded at the start.
CanBegin(p, track) ==
  /\ pc[p] = "idle"
  /\ FirstFree(p)
  /\ track => \A q \in Procs \ {p} : pc[q] = "idle"
  /\ started < MaxRequests

Begin(p, r, track) ==
  /\ CanBegin(p, track)
  /\ started' = started + 1
  /\ req' = [req EXCEPT ![p] = r]
  /\ before' = [before EXCEPT ![p] = IF track THEN Snap ELSE NoSnap]

\* const { ..., type = "text", ... } = optionData
TypeOrDefault(type) == IF type = NoType THEN DefaultType ELSE type

\* ------------------------------------------------------------ createOptions
\* prisma.variantOption.create with nested values.create: one atomic write.
CreateOptions(p, track, shop, name, type, position, isRequired, values) ==
  /\ Begin(p, [NoReq EXCEPT !.kind = "create", !.shop = shop, !.name = name,
                            !.type = TypeOrDefault(type), !.values = values], track)
  /\ LET rows == MapValues(values)
         id == nextOptionId + 1
     IN IF ~ValuesValid(values)
        THEN /\ Finish(p, Failure("Invalid value", <<>>, 1))
             /\ UNCHANGED db
        ELSE IF NameTaken(shop, name, 0) \/ ValueClash(id, rows)
        THEN /\ Finish(p, Failure("Unique constraint failed", <<>>, 1))
             /\ UNCHANGED db
        ELSE /\ id <= MaxOptionId
             /\ options' = options \cup
                  {[id |-> id, name |-> name, type |-> TypeOrDefault(type),
                    position |-> position,
                    isRequired |-> isRequired, shop |-> shop]}
             /\ optionValues' = optionValues \cup NewValueRows(id, rows)
             /\ nextOptionId' = id
             /\ nextValueId' = nextValueId + Len(rows)
             /\ Finish(p, [NoRes EXCEPT !.success = TRUE, !.optionId = id, !.queries = 1])

\* action, actionType "Add Option": a payload without optionType is rejected
\* before any call; otherwise createOptions(admin.session.shop, ...).
AddOption(p, track, shop, name, type, strs) ==
  IF type = NoType
  THEN /\ Begin(p, [NoReq EXCEPT !.kind = "Add Option", !.shop = shop, !.name = name,
                                 !.values = RouteValues(strs)], track)
       /\ Finish(p, Thrown("Missing required fields: optionName, values, or optionType",
                           "try"))
       /\ UNCHANGED db
  ELSE CreateOptions(p, track, shop, name, type, 0, TRUE, RouteValues(strs))

\* --------------------------------------------------------------- getOptions
\* Mutation: the queries carry no orderBy.
NoOrderBy(r, q, desc) == IF desc THEN r.id > q.id ELSE r.id < q.id
\* orderBy: {position: 'asc'}; rows of equal position come in an order the
\* query does not fix (either direction of the id scan).
OrderBy(r, q, desc) ==
  \/ r.position < q.position
  \/ r.position = q.position /\ (IF desc THEN r.id > q.id ELSE r.id < q.id)
RECURSIVE Sorted(_, _)
Sorted(rows, desc) ==
  IF rows = {} THEN <<>>
  ELSE LET first == CHOOSE r \in rows : \A q \in rows \ {r} : OrderBy(r, q, desc)
       IN <<first>> \o Sorted(rows \ {first}, desc)
\* include: {values: {orderBy: ...}}
WithValues(o, desc) ==
  [id |-> o.id, name |-> o.name, type |-> o.type, position |-> o.position,
   isRequired |-> o.isRequired, shop |-> o.shop,
   values |-> Sorted(ValuesOf(o.id), desc)]
\* prisma.variantOption.findMany({where: {shop}, include, orderBy})
GetOptions(shop, optionsDesc, valuesDesc) ==
  LET found == Sorted({o \in options : o.shop = shop}, optionsDesc)
  IN [i \in 1..Len(found) |-> WithValues(found[i], valuesDesc)]

GetOptionsCall(p, track, shop) ==
  /\ CanBegin(p, track)
  /\ \E optionsDesc, valuesDesc \in BOOLEAN :
       /\ Begin(p, [NoReq EXCEPT !.kind = "list", !.shop = shop], track)
       /\ Finish(p, [NoRes EXCEPT !.success = TRUE, !.queries = 1,
                                  !.options = GetOptions(shop, optionsDesc, valuesDesc)])
       /\ UNCHANGED db

\* ------------------------------------------------------------ updateOptions
\* First await: prisma.variantOptionValue.deleteMany({variantOptionId}).
UpdateDeleteValues(p, track, shop, optionId, name, type, values) ==
  /\ Begin(p, [NoReq EXCEPT !.kind = "update", !.shop = shop, !.optionId = optionId,
                            !.name = name, !.type = TypeOrDefault(type),
                            !.values = values], track)
  /\ optionValues' = optionValues \ ValuesOf(optionId)
  /\ pc' = [pc EXCEPT ![p] = "updating"]
  /\ UNCHANGED <<options, nextOptionId, nextValueId, res>>

\* Second await: prisma.variantOption.update with nested values.create.
UpdateOption(p) ==
  /\ pc[p] = "updating"
  /\ LET r == req[p]
         rows == MapValues(r.values)
         found == {o \in options : o.id = r.optionId}
     IN IF found = {}
        THEN /\ Finish(p, Failure("Record to update not found", <<>>, 2))
             /\ UNCHANGED db
        ELSE LET o == CHOOSE x \in found : TRUE
             IN IF ~ValuesValid(r.values)
                THEN /\ Finish(p, Failure("Invalid value", <<>>, 2))
                     /\ UNCHANGED db
                ELSE IF NameTaken(o.shop, r.name, o.id) \/ ValueClash(o.id, rows)
                THEN /\ Finish(p, Failure("Unique constraint failed", <<>>, 2))
                     /\ UNCHANGED db
                ELSE /\ options' = (options \ {o}) \cup
                          {[o EXCEPT !.name = r.name, !.type = r.type]}
                     /\ optionValues' = optionValues \cup NewValueRows(o.id, rows)
                     /\ nextValueId' = nextValueId + Len(rows)
                     /\ UNCHANGED nextOptionId
                     /\ Finish(p, [NoRes EXCEPT !.success = TRUE, !.optionId = o.id,
                                                !.queries = 2])
  /\ UNCHANGED <<req, before, started, client>>

\* action, actionType "Edit Option": updateOptions(optionId, ...), shop unused
EditOption(p, track, shop, optionId, name, type, strs) ==
  UpdateDeleteValues(p, track, shop, optionId, name, type, RouteValues(strs))

\* ------------------------------------------------------------ deleteOptions
\* Array.isArray(optionIds) ? optionIds : [optionIds]
IdsArray(optionIds) == IF optionIds.isArray THEN optionIds.list ELSE <<optionIds.id>>
IdsEmpty(idsArray) == Len(idsArray) = 0
\* Mutation: the shop check is missing.
ShopNeverAbsent(shop) == FALSE
ShopAbsent(shop) == shop = NoShop
\* prisma.variantOption.findMany({id: {in: idsArray}, shop}), select id, name
FindMany(idsArray, shop) ==
  {[id |-> o.id, name |-> o.name] : o \in {x \in options : x.id \in Range(idsArray) /\ x.shop = shop}}
FoundIds(existingOptions) == {o.id : o \in existingOptions}
NotFoundIds(idsArray, existingOptions) ==
  SelectSeq(idsArray, LAMBDA id : id \notin FoundIds(existingOptions))
\* Mutation: the call is rejected only when no id at all was found.
MismatchNoneFound(idsArray, existingOptions) == Cardinality(existingOptions) = 0
Mismatch(idsArray, existingOptions) == Cardinality(existingOptions) # Len(idsArray)

\* Validation, the ownership query and its check (up to the second await).
DeleteVerify(p, track, optionIds, shop) ==
  LET idsArray == IdsArray(optionIds)
      existingOptions == FindMany(idsArray, shop)
  IN /\ Begin(p, [NoReq EXCEPT !.kind = "delete", !.shop = shop, !.idsArray = idsArray,
                               !.existingOptions =
                                  IF IdsEmpty(idsArray) \/ ShopAbsent(shop)
                                  THEN {} ELSE existingOptions], track)
     /\ UNCHANGED db
     /\ IF IdsEmpty(idsArray)
        THEN Finish(p, Failure("No option IDs provided for deletion", <<>>, 0))
        ELSE IF ShopAbsent(shop)
        THEN Finish(p, Failure("Shop identifier is required for deletion", <<>>, 0))
        ELSE IF Mismatch(idsArray, existingOptions)
        THEN Finish(p, Failure("Some options not found or don't belong to this shop",
                               NotFoundIds(idsArray, existingOptions), 1))
        ELSE /\ pc' = [pc EXCEPT ![p] = "deleting"]
             /\ UNCHANGED res

\* prisma.variantOption.deleteMany({id: {in: idsArray}, shop}); values cascade.
DeleteMany(p) ==
  /\ pc[p] = "deleting"
  /\ LET r == req[p]
         gone == {o \in options : o.id \in Range(r.idsArray) /\ o.shop = r.shop}
         goneIds == {o.id : o \in gone}
     IN /\ options' = options \ gone
        /\ optionValues' = CascadeValues(goneIds)
        /\ Finish(p, [NoRes EXCEPT !.success = TRUE, !.count = Cardinality(gone),
                                   !.deletedOptions = r.existingOptions,
                                   !.removed = goneIds, !.queries = 2])
  /\ UNCHANGED <<nextOptionId, nextValueId, req, before, started, client>>

\* The response is delivered and the request is over.
Respond(p) ==
  /\ pc[p] = "done"
  /\ pc' = [pc EXCEPT ![p] = "idle"]
  /\ req' = [req EXCEPT ![p] = NoReq]
  /\ res' = [res EXCEPT ![p] = NoRes]
  /\ before' = [before EXCEPT ![p] = NoSnap]
  /\ UNCHANGED <<db, started, client>>

\* ------------------------------------------------------------ specifications
StrLists == SeqsUpTo(ValueStrs, MaxLen)
IdInputs ==
  {[isArray |-> TRUE, id |-> 0, list |-> l] : l \in SeqsUpTo(OptionIds, MaxLen)}
    \cup {[isArray |-> FALSE, id |-> i, list |-> <<>>] : i \in OptionIds}

\* A request of each actionType arrives, with any payload.
AddOptionRequest(p, track, types) ==
  /\ CanBegin(p, track)
  /\ \E shop \in Shops, name \in Names, type \in types, strs \in StrLists :
       AddOption(p, track, shop, name, type, strs)
  /\ UNCHANGED client
EditOptionRequest(p, track, types) ==
  /\ CanBegin(p, track)
  /\ \E shop \in Shops, id \in OptionIds, name \in Names, type \in types, strs \in StrLists :
       EditOption(p, track, shop, id, name, type, strs)
  /\ UNCHANGED client
\* deleteOptions as the route calls it (the session's shop) or with no shop.
DeleteOptionsRequest(p, track) ==
  /\ CanBegin(p, track)
  /\ \E ids \in IdInputs, shop \in Shops \cup {NoShop} : DeleteVerify(p, track, ids, shop)
  /\ UNCHANGED client

Step(p, track, types) ==
  \/ AddOptionRequest(p, track, types)
  \/ EditOptionRequest(p, track, types)
  \/ UpdateOption(p)
  \/ DeleteOptionsRequest(p, track)
  \/ DeleteMany(p)
  \/ Respond(p)

\* Requests interleave at their awaits.
Next == \E p \in Procs : Step(p, FALSE, {DefaultType})
Spec == Init /\ [][Next]_vars

\* One call at a time: a request starts only when no other is in flight.
NextSeq == \E p \in Procs : Step(p, TRUE, {DefaultType})
SpecSeq == Init /\ [][NextSeq]_vars

\* One call at a time, with any optionType in the payload or none.
NextType == \E p \in Procs : Step(p, TRUE, Types \cup {NoType})
SpecType == Init /\ [][NextType]_vars

\* createOptions called on a fresh table with any mix of raw strings and
\* {value, position, isActive} objects.
EntryStrs == ValueStrs \cup {""}
Entries ==
  {StrEntry(v) : v \in EntryStrs}
    \cup {ObjEntry(v, TRUE, pos, TRUE, act) : v \in EntryStrs, pos \in 0..MaxLen, act \in BOOLEAN}
    \cup {ObjEntry(v, TRUE, pos, FALSE, FALSE) : v \in EntryStrs, pos \in 0..MaxLen}
    \cup {ObjEntry(v, FALSE, 0, TRUE, act) : v \in EntryStrs, act \in BOOLEAN}
    \cup {ObjEntry(v, FALSE, 0, FALSE, FALSE) : v \in EntryStrs}
CreateOptionsCall(p) ==
  /\ options = {}
  /\ CanBegin(p, TRUE)
  /\ \E shop \in Shops, name \in Names, values \in SeqsUpTo(Entries, MaxLen) :
       CreateOptions(p, TRUE, shop, name, DefaultType, 0, TRUE, values)
  /\ UNCHANGED client
NextCreate == \E p \in Procs : CreateOptionsCall(p) \/ Respond(p)
SpecCreate == Init /\ [][NextCreate]_vars

\* createOptions with any position for the option and for each value, in any
\* order of insertion, and getOptions over the result.
Positions == 1..MaxLen
PositionedEntries == {ObjEntry(v, TRUE, pos, TRUE, TRUE) : v \in ValueStrs, pos \in Positions}
CreateOptionsAt(p) ==
  /\ CanBegin(p, TRUE)
  /\ \E shop \in Shops, name \in Names, position \in Positions,
        values \in SeqsUpTo(PositionedEntries, MaxLen) :
       CreateOptions(p, TRUE, shop, name, DefaultType, position, TRUE, values)
  /\ UNCHANGED client
GetOptionsRequest(p) ==
  /\ \E shop \in Shops : GetOptionsCall(p, TRUE, shop)
  /\ UNCHANGED client
NextList == \E p \in Procs : CreateOptionsAt(p) \/ GetOptionsRequest(p) \/ Respond(p)
SpecList == Init /\ [][NextList]_vars

\* ------------------------------------------------------------ route action
\* Mutation: action has no outer try/catch, the error leaves the action.
OuterCatchMissing(error) == [status |-> "thrown", success |-> FALSE, error |-> error]
\* The outer catch of action: json({success: false, error: "An unexpected
\* error occurred"}, {status: 500}).
OuterCatch(error) ==
  [status |-> "json", success |-> FALSE, error |-> "An unexpected error occurred"]
\* What action answers once the work of the request has returned or thrown r:
\* the catch of the actionType's own try block answers with error.message.
ActionResponse(r) ==
  IF r.success THEN [status |-> "json", success |-> TRUE, error |-> ""]
  ELSE IF r.thrownIn = "action" THEN OuterCatch(r.error)
  ELSE [status |-> "json", success |-> FALSE, error |-> r.error]

\* ------------------------------------------------------------------- faults
StorageError == "Can't reach database server"
ActionTypes == {"Add Option", "Edit Option", "Delete Options"}
\* catch (error) { console.error(...); throw error } of each persistence
\* function (deleteOptions throws a new Error around error.message).
Rethrow(error, q) == Failure(error, <<>>, q)
\* The first prisma call of a persistence function throws.
FirstCallFails(p, track) ==
  /\ CanBegin(p, track)
  /\ \E kind \in {"create", "list", "update", "delete"}, shop \in Shops, id \in OptionIds :
       Begin(p, [NoReq EXCEPT !.kind = kind, !.shop = shop,
                              !.optionId = IF kind = "update" THEN id ELSE 0,
                              !.idsArray = IF kind = "delete" THEN <<id>> ELSE <<>>], track)
  /\ Finish(p, Rethrow(StorageError, 1))
  /\ UNCHANGED <<db, client>>
\* The second prisma call of updateOptions or deleteOptions throws.
SecondCallFails(p) ==
  /\ pc[p] \in {"updating", "deleting"}
  /\ Finish(p, Rethrow(StorageError, 2))
  /\ UNCHANGED <<db, req, before, started, client>>
\* The payload does not parse: Add Option reads and parses optionSet inside
\* its try block, Edit Option and Delete Options parse before theirs.
ParseThrownIn(actionType) == IF actionType = "Add Option" THEN "try" ELSE "action"
MalformedPayload(p, track) ==
  /\ CanBegin(p, track)
  /\ \E actionType \in ActionTypes, shop \in Shops :
       /\ Begin(p, [NoReq EXCEPT !.kind = actionType, !.shop = shop], track)
       /\ Finish(p, Thrown("Unexpected token in JSON", ParseThrownIn(actionType)))
  /\ UNCHANGED <<db, client>>

\* One call at a time, where any prisma call may throw and any payload may
\* be malformed or lack its optionType.
NextFault ==
  \E p \in Procs :
    \/ Step(p, TRUE, {DefaultType, NoType})
    \/ GetOptionsRequest(p)
    \/ FirstCallFails(p, TRUE)
    \/ SecondCallFails(p)
    \/ MalformedPayload(p, TRUE)
SpecFault == Init /\ [][NextFault]_vars

\* ------------------------------------------------------------------- loader
ClientShop == "shopX"                 \* admin.session.shop of the page's session
server == <<options, optionValues, nextOptionId, nextValueId, pc, req, res, before, started>>
NoPosition == -1                      \* an object without position (undefined)
\* x || 0
OrZero(x) == IF x = NoPosition \/ x = 0 THEN 0 ELSE x
\* Mutation: the position of an option and of a value is not copied.
TransformWithoutPosition(serverOptions) ==
  [i \in 1..Len(serverOptions) |->
     [id |-> serverOptions[i].id,
      name |-> serverOptions[i].name,
      type |-> IF serverOptions[i].type = NoType THEN "text" ELSE serverOptions[i].type,
      position |-> 0,
      isRequired |-> serverOptions[i].isRequired \/ TRUE,
      values |-> [j \in 1..Len(serverOptions[i].values) |->
                    [name |-> serverOptions[i].values[j].value,
                     checked |-> serverOptions[i].values[j].isActive,
                     position |-> 0]]]]
\* useOptions: transformOptions
TransformOptions(serverOptions) ==
  [i \in 1..Len(serverOptions) |->
     [id |-> serverOptions[i].id,
      name |-> serverOptions[i].name,
      type |-> IF serverOptions[i].type = NoType THEN "text" ELSE serverOptions[i].type,
      position |-> OrZero(serverOptions[i].position),
      isRequired |-> serverOptions[i].isRequired \/ TRUE,
      values |-> [j \in 1..Len(serverOptions[i].values) |->
                    [name |-> serverOptions[i].values[j].value,
                     checked |-> serverOptions[i].values[j].isActive,
                     position |-> OrZero(serverOptions[i].values[j].position)]]]]
\* optionUtils: transformLoadedOptions, which no module calls
TransformLoadedOptions(loadedOptions) ==
  [i \in 1..Len(loadedOptions) |->
     [id |-> loadedOptions[i].id,
      name |-> loadedOptions[i].name,
      type |-> IF loadedOptions[i].type = NoType THEN "text" ELSE loadedOptions[i].type,
      values |-> [j \in 1..Len(loadedOptions[i].values) |->
                    [name |-> loadedOptions[i].values[j].value,
                     checked |-> loadedOptions[i].values[j].isActive]]]]
\* Mutation: an empty list does not replace the client's options.
SyncIfNonEmpty(loadedOptions, current) ==
  IF Len(loadedOptions) > 0 THEN TransformOptions(loadedOptions) ELSE current
\* useOptions, the effect on [loadedOptions, transformOptions]: loadedOptions
\* is an array, so setOptions(transformOptions(loadedOptions)) runs.
SyncOptions(loadedOptions, current) == TransformOptions(loadedOptions)
\* Mutation: the loader lets the error of getOptions through.
LoaderRethrows(q) ==
  [loaded |-> TRUE, threw |-> q.threw, failed |-> q.threw, options |-> q.options]
\* try { options = await getOptions(shop) } catch { options: [] }
LoaderCatch(q) ==
  [loaded |-> TRUE, threw |-> q.threw, failed |-> FALSE,
   options |-> IF q.threw THEN <<>> ELSE q.options]
\* The page loads, or its data is revalidated: loader, then the effect of
\* useOptions copies loadedOptions into the client's options.
Revalidate ==
  /\ \E threw, optionsDesc, valuesDesc \in BOOLEAN :
       LET q == IF threw THEN [threw |-> TRUE, options |-> <<>>]
                ELSE [threw |-> FALSE,
                      options |-> GetOptions(ClientShop, optionsDesc, valuesDesc)]
           data == LoaderCatch(q)
       IN /\ loaderData' = data
          /\ store' = IF data.failed THEN store ELSE SyncOptions(data.options, store)
  /\ call' = [NoCall EXCEPT !.op = "loader"]
  /\ UNCHANGED <<server, isLoading, toastActive, toastMessage>>
Loader ==
  /\ Revalidate
  /\ OptionsChanged

\* ------------------------------------------------------------ Index handlers
ShowToast(text) ==
  /\ toastMessage' = [text |-> text, error |-> ""]
  /\ toastActive' = TRUE
HideToast ==
  /\ toastActive
  /\ toastActive' = FALSE
  /\ UNCHANGED <<server, loaderData, store, isLoading, toastMessage, call, modal>>
\* The modals submit a name and a non-empty list of distinct values.
ModalValues ==
  {l \in StrLists : Len(l) > 0 /\ \A i, j \in 1..Len(l) : i # j => l[i] # l[j]}
\* selectedItems: ids of listed options, each once
SelectedItems ==
  {l \in SeqsUpTo({o.id : o \in Range(store)}, MaxLen) :
     \A i, j \in 1..Len(l) : i # j => l[i] # l[j]}

\* The page is rendered once its loader has returned.
Rendered == loaderData.loaded /\ ~loaderData.failed

\* Each handler runs to its end in one go: setIsLoading(true), submit (which
\* only starts the request), showToast, and setIsLoading(false) in finally.
HandleAddOption(p) ==
  /\ Rendered
  /\ CanBegin(p, FALSE)
  /\ ~isLoading
  /\ \E optionName \in Names, values \in ModalValues :
       AddOption(p, FALSE, ClientShop, optionName, DefaultType, values)
  /\ ShowToast("created successfully!")
  /\ isLoading' = FALSE
  /\ UNCHANGED <<loaderData, store, call, modal>>

HandleEditOption(p) ==
  /\ Rendered
  /\ CanBegin(p, FALSE)
  /\ ~isLoading
  /\ \E editingOption \in Range(store), optionName \in Names, values \in ModalValues :
       EditOption(p, FALSE, ClientShop, editingOption.id, optionName,
                  editingOption.type, values)
  /\ ShowToast("updated successfully!")
  /\ isLoading' = FALSE
  /\ UNCHANGED <<loaderData, store, call, modal>>

HandleSingleDelete(p) ==
  /\ Rendered
  /\ CanBegin(p, FALSE)
  /\ \E optionId \in OptionIds :
       IF \E o \in Range(store) : o.id = optionId
       THEN /\ DeleteVerify(p, FALSE, [isArray |-> TRUE, id |-> 0, list |-> <<optionId>>],
                            ClientShop)
            /\ ShowToast("Successfully deleted option")
            /\ isLoading' = FALSE
       ELSE /\ ShowToast("Option not found.")
            /\ UNCHANGED <<server, isLoading>>
  /\ UNCHANGED <<loaderData, store, call, modal>>

HandleBulkDelete(p) ==
  /\ Rendered
  /\ CanBegin(p, FALSE)
  /\ \E selectedItems \in SelectedItems :
       IF Len(selectedItems) = 0
       THEN /\ ShowToast("No options selected for deletion.")
            /\ UNCHANGED <<server, isLoading>>
       ELSE /\ DeleteVerify(p, FALSE, [isArray |-> TRUE, id |-> 0, list |-> selectedItems],
                            ClientShop)
            /\ ShowToast("Successfully deleted options")
            /\ isLoading' = FALSE
  /\ UNCHANGED <<loaderData, store, call, modal>>

\* The page: its handlers, the requests they start, and the loader.
NextClient ==
  \/ Loader
  \/ HideToast
  \/ \E p \in Procs :
       \/ HandleAddOption(p)
       \/ HandleEditOption(p)
       \/ HandleSingleDelete(p)
       \/ HandleBulkDelete(p)
       \/ UpdateOption(p)
       \/ DeleteMany(p)
       \/ Respond(p)
SpecClient == Init /\ [][NextClient]_vars

\* --------------------------------------------------------------- useOptions
\* Mutation: the value is flipped in every option, not only in optionId.
ToggleInEveryOption(currentOptions, optionId, valueNameToToggle) ==
  [i \in 1..Len(currentOptions) |->
     [currentOptions[i] EXCEPT !.values =
        [j \in 1..Len(@) |->
           IF @[j].name = valueNameToToggle
           THEN [@[j] EXCEPT !.checked = ~@] ELSE @[j]]]]
\* handleToggleValueChecked: the updater passed to setOptions
ToggleValueChecked(currentOptions, optionId, valueNameToToggle) ==
  [i \in 1..Len(currentOptions) |->
     IF currentOptions[i].id = optionId
     THEN [currentOptions[i] EXCEPT !.values =
             [j \in 1..Len(@) |->
                IF @[j].name = valueNameToToggle
                THEN [@[j] EXCEPT !.checked = ~@] ELSE @[j]]]
     ELSE currentOptions[i]]
\* Mutation: every value of the option is flipped on its own.
InvertEachValue(currentOptions, optionId) ==
  [i \in 1..Len(currentOptions) |->
     IF currentOptions[i].id = optionId
     THEN [currentOptions[i] EXCEPT !.values =
             [j \in 1..Len(@) |-> [@[j] EXCEPT !.checked = ~@]]]
     ELSE currentOptions[i]]
\* handleToggleAllValues: the updater passed to setOptions
ToggleAllValues(currentOptions, optionId) ==
  [i \in 1..Len(currentOptions) |->
     IF currentOptions[i].id = optionId
     THEN LET allChecked == \A j \in 1..Len(currentOptions[i].values) :
                               currentOptions[i].values[j].checked
          IN [currentOptions[i] EXCEPT !.values =
                [j \in 1..Len(@) |-> [@[j] EXCEPT !.checked = ~allChecked]]]
     ELSE currentOptions[i]]

HandleToggleValueChecked ==
  /\ \E optionId \in OptionIds, valueNameToToggle \in ValueStrs :
       /\ store' = ToggleValueChecked(store, optionId, valueNameToToggle)
       /\ call' = [NoCall EXCEPT !.op = "toggleValueChecked", !.optionId = optionId,
                                 !.valueName = valueNameToToggle, !.before = store]
  /\ OptionsChanged
  /\ UNCHANGED <<server, loaderData, isLoading, toastActive, toastMessage>>
HandleToggleAllValues ==
  /\ \E optionId \in OptionIds :
       /\ store' = ToggleAllValues(store, optionId)
       /\ call' = [NoCall EXCEPT !.op = "toggleAllValues", !.optionId = optionId,
                                 !.before = store]
  /\ OptionsChanged
  /\ UNCHANGED <<server, loaderData, isLoading, toastActive, toastMessage>>

\* The client's options as a load and earlier toggles can leave them: options
\* of distinct ids and names, each with distinct value names, checked or not.
Distinct(l) == \A i, j \in 1..Len(l) : i # j => l[i] # l[j]
StoreValues ==
  {[j \in 1..Len(l) |-> [name |-> l[j], checked |-> c[j], position |-> j - 1]] :
     <<l, c>> \in UNION {{l \in [1..k -> ValueStrs] : Distinct(l)} \X [1..k -> BOOLEAN] :
                          k \in 0..MaxLen}}
StoreOptions ==
  {[id |-> id, name |-> name, type |-> DefaultType, position |-> 0,
    isRequired |-> TRUE, values |-> values] :
     id \in OptionIds, name \in Names, values \in StoreValues}
Stores ==
  {l \in SeqsUpTo(StoreOptions, MaxOptionId) :
     \A i, j \in 1..Len(l) : i # j => (l[i].id # l[j].id /\ l[i].name # l[j].name)}
InitStore ==
  /\ options = {}
  /\ optionValues = {}
  /\ nextOptionId = 0
  /\ nextValueId = 0
  /\ pc = [p \in Procs |-> "idle"]
  /\ req = [p \in Procs |-> NoReq]
  /\ res = [p \in Procs |-> NoRes]
  /\ before = [p \in Procs |-> NoSnap]
  /\ started = 0
  /\ loaderData = NoLoaderData
  /\ store \in Stores
  /\ isLoading = FALSE
  /\ toastActive = FALSE
  /\ toastMessage = NoToast
  /\ call = NoCall
  /\ searchQuery = ""
  /\ debounceTimer = FALSE
  /\ searchPending = FALSE
  /\ sent = 0
NextStore == HandleToggleValueChecked \/ HandleToggleAllValues
SpecStore == InitStore /\ [][NextStore]_vars

\* ------------------------------------------------- useOptions: local changes
\* A function of the hook either returns or throws; options is what the
\* client's copy holds afterwards.
\* set: setOptions was called.
Returned(newOptions) == [threw |-> FALSE, set |-> TRUE, options |-> newOptions]
Ignored(prevOptions) == [threw |-> FALSE, set |-> FALSE, options |-> prevOptions]
Threw(prevOptions) == [threw |-> TRUE, set |-> FALSE, options |-> prevOptions]
HasId(prevOptions, id) == \E i \in 1..Len(prevOptions) : prevOptions[i].id = id
ReplaceById(prevOptions, option) ==
  [i \in 1..Len(prevOptions) |->
     IF prevOptions[i].id = option.id THEN option ELSE prevOptions[i]]

\* Mutation: the new option is appended whether or not its id is listed.
AddOptionAlwaysAppends(prevOptions, newOption) ==
  IF ~newOption.defined \/ newOption.option.id = 0
  THEN Ignored(prevOptions)
  ELSE Returned(Append(prevOptions, newOption.option))
\* Mutation: the argument is used without being looked at first.
AddOptionUnguarded(prevOptions, newOption) ==
  IF ~newOption.defined
  THEN Threw(prevOptions)
  ELSE IF HasId(prevOptions, newOption.option.id)
       THEN Returned(ReplaceById(prevOptions, newOption.option))
       ELSE Returned(Append(prevOptions, newOption.option))
\* addOption: !newOption || !newOption.id returns at once; an id of 0 stands
\* for an object that has no id.
AddOptionTo(prevOptions, newOption) ==
  IF ~newOption.defined \/ newOption.option.id = 0
  THEN Ignored(prevOptions)
  ELSE IF HasId(prevOptions, newOption.option.id)
       THEN Returned(ReplaceById(prevOptions, newOption.option))
       ELSE Returned(Append(prevOptions, newOption.option))

\* Mutation: an option that is not listed is not added.
UpdateOptionOnlyReplaces(prevOptions, updatedOption) ==
  IF ~updatedOption.defined \/ updatedOption.option.id = 0
  THEN Ignored(prevOptions)
  ELSE Returned(ReplaceById(prevOptions, updatedOption.option))
\* updateOption
UpdateOptionIn(prevOptions, updatedOption) ==
  IF ~updatedOption.defined \/ updatedOption.option.id = 0
  THEN Ignored(prevOptions)
  ELSE IF ~HasId(prevOptions, updatedOption.option.id)
       THEN Returned(Append(prevOptions, updatedOption.option))
       ELSE Returned(ReplaceById(prevOptions, updatedOption.option))

\* Mutation: a single id is not wrapped into a list.
RemoveOptionsListOnly(prevOptions, optionIds) ==
  IF ~optionIds.isArray \/ Len(optionIds.list) = 0
  THEN Ignored(prevOptions)
  ELSE Returned(SelectSeq(prevOptions, LAMBDA option : option.id \notin Range(optionIds.list)))
\* removeOptions
RemoveOptionsFrom(prevOptions, optionIds) ==
  LET idsArray == IF optionIds.isArray THEN optionIds.list ELSE <<optionIds.id>>
  IN IF Len(idsArray) = 0
     THEN Ignored(prevOptions)
     ELSE Returned(SelectSeq(prevOptions, LAMBDA option : option.id \notin Range(idsArray)))

\* Mutation: every value of the edited option starts checked.
UpdateOptionObjectAllChecked(originalOption, optionName, values, optionType) ==
  [originalOption EXCEPT
     !.name = optionName,
     !.values = [j \in 1..Len(values) |-> [name |-> values[j], checked |-> TRUE]],
     !.type = optionType]
\* optionUtils: updateOptionObject; find returns the first value of that name
UpdateOptionObject(originalOption, optionName, values, optionType) ==
  [originalOption EXCEPT
     !.name = optionName,
     !.values =
        [j \in 1..Len(values) |->
           LET found == {k \in 1..Len(originalOption.values) :
                           originalOption.values[k].name = values[j]}
               existingValue ==
                 originalOption.values[CHOOSE k \in found : \A m \in found : k <= m]
           IN [name |-> values[j],
               checked |-> IF found # {} THEN existingValue.checked ELSE TRUE]],
     !.type = optionType]

\* What a caller can pass as an option: nothing, an option, or an object
\* that has no id.
OptionArgs ==
  {Undefined} \cup {Passed(o) : o \in StoreOptions}
              \cup {Passed([o EXCEPT !.id = 0]) : o \in StoreOptions}
\* What a caller can pass as ids: one id or a list of ids, listed or not.
IdArgs ==
  {[isArray |-> FALSE, id |-> id, list |-> <<>>] : id \in OptionIds}
    \cup {[isArray |-> TRUE, id |-> 0, list |-> l] : l \in SeqsUpTo(OptionIds, MaxLen)}

\* The value names the edit modal can hand over: the known ones and a new one.
EditNames == ValueStrs \cup {"Green"}

\* One function of the hook is applied to the client's copy.
StoreAddOption ==
  /\ call.op = "none"
  /\ \E newOption \in OptionArgs :
       LET r == AddOptionTo(store, newOption)
       IN /\ store' = r.options
          /\ call' = [NoCall EXCEPT !.op = "addOption", !.arg = newOption,
                                    !.before = store, !.threw = r.threw]
          /\ IF r.set THEN OptionsChanged ELSE UNCHANGED modal
  /\ UNCHANGED <<server, loaderData, isLoading, toastActive, toastMessage>>
StoreUpdateOption ==
  /\ call.op = "none"
  /\ \E updatedOption \in OptionArgs :
       LET r == UpdateOptionIn(store, updatedOption)
       IN /\ store' = r.options
          /\ call' = [NoCall EXCEPT !.op = "updateOption", !.arg = updatedOption,
                                    !.before = store, !.threw = r.threw]
          /\ IF r.set THEN OptionsChanged ELSE UNCHANGED modal
  /\ UNCHANGED <<server, loaderData, isLoading, toastActive, toastMessage>>
StoreRemoveOptions ==
  /\ call.op = "none"
  /\ \E optionIds \in IdArgs :
       LET r == RemoveOptionsFrom(store, optionIds)
       IN /\ store' = r.options
          /\ call' = [NoCall EXCEPT !.op = "removeOptions", !.ids = optionIds,
                                    !.before = store, !.threw = r.threw]
          /\ IF r.set THEN OptionsChanged ELSE UNCHANGED modal
  /\ UNCHANGED <<server, loaderData, isLoading, toastActive, toastMessage>>
\* The edit modal's result for one listed option; the client's copy is not
\* touched.
EditOptionObject ==
  /\ call.op = "none"
  /\ \E originalOption \in Range(store), optionName \in Names,
        values \in SeqsUpTo(EditNames, MaxLen), optionType \in Types :
       call' = [NoCall EXCEPT
                  !.op = "updateOptionObject", !.arg = Passed(originalOption),
                  !.names = values, !.before = store,
                  !.result = UpdateOptionObject(originalOption, optionName, values, optionType)]
  /\ UNCHANGED <<server, loaderData, store, isLoading, toastActive, toastMessage, modal>>
NextUpsert ==
  \/ StoreAddOption
  \/ StoreUpdateOption
  \/ StoreRemoveOptions
  \/ EditOptionObject
SpecUpsert == InitStore /\ [][NextUpsert]_vars

\* --------------------------------------------- useOptions: the sync effect
\* Rows as a caller can hand them to transformOptions: with or without type
\* and position, required or not, values active or not.
LoadedValues ==
  {[j \in 1..Len(l) |-> [value |-> l[j], isActive |-> a[j], position |-> q[j]]] :
     <<l, a, q>> \in UNION {{l \in [1..k -> ValueStrs] : \A j \in 1..k : l[j] = ValueOrder[j]}
                              \X [1..k -> BOOLEAN] \X [1..k -> {NoPosition, 1}] :
                            k \in 0..Len(ValueOrder)}}
\* Names are distinct within a shop, so a list is no longer than Names.
MaxListed == IF MaxOptionId < Cardinality(Names) THEN MaxOptionId ELSE Cardinality(Names)
LoadedOptions ==
  {[id |-> id, name |-> name, type |-> type, position |-> position,
    isRequired |-> isRequired, values |-> values] :
     id \in 1..MaxListed, name \in Names, type \in {NoType, "color"},
     position \in {NoPosition, 1}, isRequired \in BOOLEAN, values \in LoadedValues}
LoadedLists ==
  {l \in SeqsUpTo(LoadedOptions, MaxListed) :
     \A i, j \in 1..Len(l) : i # j => (l[i].id # l[j].id /\ l[i].name # l[j].name)}
\* Results of the loader as getOptions produces them, for up to one option.
Reloads ==
  {l \in SeqsUpTo(LoadedOptions, 1) :
     \A o \in Range(l) :
       /\ o.type # NoType /\ o.position # NoPosition /\ o.isRequired
       /\ \A v \in Range(o.values) : v.position # NoPosition}
InitLoaded(loadedLists, stores) ==
  /\ options = {}
  /\ optionValues = {}
  /\ nextOptionId = 0
  /\ nextValueId = 0
  /\ pc = [p \in Procs |-> "idle"]
  /\ req = [p \in Procs |-> NoReq]
  /\ res = [p \in Procs |-> NoRes]
  /\ before = [p \in Procs |-> NoSnap]
  /\ started = 0
  /\ loaderData \in {[loaded |-> TRUE, threw |-> FALSE, failed |-> FALSE, options |-> l] :
                       l \in loadedLists}
  /\ store \in stores
  /\ isLoading = FALSE
  /\ toastActive = FALSE
  /\ toastMessage = NoToast
  /\ call = NoCall
  /\ searchQuery = ""
  /\ debounceTimer = FALSE
  /\ searchPending = FALSE
  /\ sent = 0
\* The effect runs for the loadedOptions the component was rendered with.
SyncLoaded ==
  /\ call.op = "none"
  /\ loaderData.loaded
  /\ store' = SyncOptions(loaderData.options, store)
  /\ call' = [NoCall EXCEPT !.op = "sync", !.before = store]
  /\ OptionsChanged
  /\ UNCHANGED <<server, loaderData, isLoading, toastActive, toastMessage>>
\* transformOptions over any rows, on first render.
InitShape == InitLoaded(LoadedLists, {<<>>})
SpecShape == InitShape /\ [][SyncLoaded]_vars
\* A new result of the loader meets any client's copy.
InitSync == InitLoaded(Reloads, Stores)
SpecSync == InitSync /\ [][SyncLoaded]_vars

\* createOptions called with isRequired true or false, and the page loaded
\* over the result.
CreateOptionsRequired(p) ==
  /\ CanBegin(p, TRUE)
  /\ \E name \in Names, isRequired \in BOOLEAN, values \in SeqsUpTo({StrEntry("Red")}, 1) :
       CreateOptions(p, TRUE, ClientShop, name, DefaultType, 0, isRequired, values)
  /\ UNCHANGED client
NextRequired ==
  \/ Loader
  \/ \E p \in Procs : CreateOptionsRequired(p) \/ Respond(p)
SpecRequired == Init /\ [][NextRequired]_vars

\* The page used one thing at a time: a value is toggled only while no
\* request is pending; options are added and edited through the modals and
\* the loader revalidates the page's data.
ToggleWhenIdle ==
  /\ \A p \in Procs : pc[p] = "idle"
  /\ HandleToggleValueChecked
NextEdit ==
  \/ Loader
  \/ ToggleWhenIdle
  \/ \E p \in Procs :
       \/ HandleAddOption(p)
       \/ HandleEditOption(p)
       \/ UpdateOption(p)
       \/ Respond(p)
SpecEdit == Init /\ [][NextEdit]_vars

\* ---------------------------------------------------- ProductSelectionModal
Queries == {"", " ", "shirt", "hat"}  \* what the search field can hold
Blank(query) == query \in {"", " "}   \* searchQuery.trim() is ""
\* The user types in the search field: setSearchQuery, and the effect sets
\* the timeout again.
ChangeQuery ==
  /\ Rendered
  /\ \E value \in Queries \ {searchQuery} : searchQuery' = value
  /\ debounceTimer' = TRUE
  /\ sent' = 0
  /\ UNCHANGED <<server, loaderData, store, isLoading, toastActive, toastMessage, call,
                 searchPending>>
\* 500 ms have passed: handleSubmit submits actionType "search-products"
\* unless the query is blank.
TimerFires ==
  /\ debounceTimer
  /\ debounceTimer' = FALSE
  /\ IF Blank(searchQuery)
     THEN UNCHANGED <<searchPending, sent>>
     ELSE /\ sent < MaxSearches
          /\ searchPending' = TRUE
          /\ sent' = sent + 1
  /\ UNCHANGED <<server, loaderData, store, isLoading, toastActive, toastMessage, call,
                 searchQuery>>
\* The action answers a search-products submission (it returns null and
\* writes nothing); the page's data is revalidated, the effect of useOptions
\* sets a new options array, and the effect of the modal sets its timeout.
SearchResponds ==
  /\ searchPending
  /\ searchPending' = FALSE
  /\ Revalidate
  /\ debounceTimer' = TRUE
  /\ UNCHANGED <<searchQuery, sent>>
\* The page is opened: the first run of the loader.
FirstLoad ==
  /\ ~loaderData.loaded
  /\ Loader
\* The page is opened over any stored options and left alone but for the
\* search field; the only reloads are those that answer a search.
NextSearch ==
  \/ FirstLoad
  \/ ChangeQuery
  \/ TimerFires
  \/ SearchResponds
  \/ \E p \in Procs : CreateOptionsRequired(p) \/ Respond(p)
SpecSearch == Init /\ [][NextSearch]_vars

\* ------------------------------------------------------------------ claims
Done(p, kind) == pc[p] = "done" /\ req[p].kind = kind
Unchanged(p) ==
  options = before[p].options /\ optionValues = before[p].optionValues
\* The rows a payload asks for, as the handler maps them (ids aside).
Replacement(values) == Range(MapValues(values))
Stored(optionId) ==
  {[value |-> v.value, position |-> v.position, isActive |-> v.isActive] : v \in ValuesOf(optionId)}

\* C1: a failed updateOption leaves the Option and its Values exactly as they
\* were before the call (checked one call at a time, SpecSeq).
C1_UpdateAtomic == \A p \in Procs : (Done(p, "update") /\ ~res[p].success) => Unchanged(p)

\* C2: when two updateOption requests for the same option both return
\* successfully, the option's values are the replacement set of one of them.
C2_NoMixedValues ==
  \A p, q \in Procs :
    (/\ p # q
     /\ Done(p, "update") /\ Done(q, "update")
     /\ res[p].success /\ res[q].success
     /\ req[p].optionId = req[q].optionId)
    => Stored(req[p].optionId) \in {Replacement(req[p].values), Replacement(req[q].values)}

\* C3: no step of a request issued under shop X creates, modifies or deletes
\* an Option, or a Value of an Option, of another shop.
OtherShops(opts, shop) == {o \in opts : o.shop # shop}
OtherShopValues(vals, shop) ==
  {v \in vals : \E o \in options : o.id = v.variantOptionId /\ o.shop # shop}
StepOf(p) == pc'[p] # pc[p] /\ pc'[p] # "idle"
C3_ShopScoped ==
  [][\A p \in Procs :
       (StepOf(p) /\ req'[p].shop \in Shops)
       => /\ OtherShops(options', req'[p].shop) = OtherShops(options, req'[p].shop)
          /\ OtherShopValues(optionValues', req'[p].shop)
               = OtherShopValues(optionValues, req'[p].shop)]_vars

\* C4: in every reachable state, under any interleaving, no two Options of a
\* shop share a name and no two Values of an Option share a value string.
C4_Unique ==
  /\ \A o1, o2 \in options : (o1.shop = o2.shop /\ o1.name = o2.name) => o1 = o2
  /\ \A v1, v2 \in optionValues :
       (v1.variantOptionId = v2.variantOptionId /\ v1.value = v2.value) => v1 = v2
\* Two creations of the same (shop, name) in flight together: one succeeded,
\* the other was rejected by the unique index.
C4_Witness ==
  \E p, q \in Procs :
    /\ Done(p, "create") /\ Done(q, "create")
    /\ req[p].shop = req[q].shop /\ req[p].name = req[q].name
    /\ res[p].success
    /\ res[q].error = "Unique constraint failed"

\* C5: deleteOptions(ids, shop) with an id that is missing or of another shop
\* fails, its message names exactly those ids, and nothing is deleted.
Owned(opts, id, shop) == \E o \in opts : o.id = id /\ o.shop = shop
Missing(p) == {id \in Range(req[p].idsArray) : ~Owned(before[p].options, id, req[p].shop)}
C5_DeleteVerifies ==
  \A p \in Procs :
    (Done(p, "delete") /\ req[p].shop \in Shops /\ Missing(p) # {})
    => /\ ~res[p].success
       /\ res[p].error = "Some options not found or don't belong to this shop"
       /\ Range(res[p].notFoundIds) = Missing(p)
       /\ Unchanged(p)
\* A rejected list that also holds an id the shop does own.
C5_Witness ==
  \E p \in Procs :
    /\ Done(p, "delete") /\ req[p].shop \in Shops
    /\ Missing(p) # {}
    /\ Range(req[p].idsArray) \ Missing(p) # {}
    /\ ~res[p].success
    /\ ValuesOf(CHOOSE id \in Range(req[p].idsArray) \ Missing(p) : TRUE) # {}

\* C6: deleteOptions(ids, shop) with a non-empty list of ids all owned by
\* shop (repetitions allowed) succeeds and returns the count and the
\* (id, name) of exactly the Options it removed.
C6_DeleteOwned ==
  \A p \in Procs :
    (/\ Done(p, "delete") /\ req[p].shop \in Shops
     /\ req[p].idsArray # <<>> /\ Missing(p) = {})
    => /\ res[p].success
       /\ res[p].removed = Range(req[p].idsArray)
       /\ res[p].count = Cardinality(Range(req[p].idsArray))
       /\ res[p].deletedOptions =
            {[id |-> o.id, name |-> o.name] :
               o \in {x \in before[p].options : x.id \in Range(req[p].idsArray)}}
       /\ \A id \in Range(req[p].idsArray) : ~\E o \in options : o.id = id

\* C7: every Value is owned by exactly one existing Option; a successful
\* deleteOptions leaves no Value of the deleted Options, and a successful
\* updateOption leaves the Option owning exactly the replacement set and no
\* row of the old set (calls one at a time, SpecSeq).
NoOrphans ==
  \A v \in optionValues : Cardinality({o \in options : o.id = v.variantOptionId}) = 1
C7_NoOrphans ==
  /\ NoOrphans
  /\ \A p \in Procs :
       /\ (Done(p, "delete") /\ res[p].success)
          => \A id \in Range(req[p].idsArray) : ValuesOf(id) = {}
       /\ (Done(p, "update") /\ res[p].success)
          => /\ Stored(req[p].optionId) = Replacement(req[p].values)
             /\ Cardinality(ValuesOf(req[p].optionId)) = Len(req[p].values)
             /\ ValuesOf(req[p].optionId) \cap before[p].optionValues = {}
\* An option that had values has been updated to a new non-empty set.
C7_Witness ==
  \E p \in Procs :
    /\ Done(p, "update") /\ res[p].success
    /\ req[p].values # <<>>
    /\ \E v \in before[p].optionValues : v.variantOptionId = req[p].optionId

\* C8: a deleteOptions call that returns successfully reports a count equal
\* to the number of its deletedOptions, each of which that call removed.
C8_DeleteCountMatches ==
  \A p \in Procs :
    (Done(p, "delete") /\ res[p].success)
    => /\ res[p].count = Cardinality(res[p].deletedOptions)
       /\ {o.id : o \in res[p].deletedOptions} = res[p].removed

\* C9: deleteOptions with an empty id list or an absent shop fails before any
\* storage access and leaves the persisted state unchanged.
C9_DeleteValidates ==
  \A p \in Procs :
    (Done(p, "delete") /\ (Len(req[p].idsArray) = 0 \/ req[p].shop = ""))
    => /\ ~res[p].success
       /\ res[p].queries = 0
       /\ Unchanged(p)
\* Rejected for the absent shop although the ids name an existing option.
C9_Witness ==
  \E p \in Procs :
    /\ Done(p, "delete") /\ req[p].shop = ""
    /\ \E id \in Range(req[p].idsArray) : \E o \in options : o.id = id
    /\ res[p].error = "Shop identifier is required for deletion"

\* C10: createOption stores one Value per entry, in order; a raw string gets
\* its index as position and isActive true; an object keeps the position and
\* the isActive it supplies, and only a field not supplied is defaulted.
Expected(values) ==
  [i \in 1..Len(values) |->
     [value |-> values[i].value,
      position |-> IF values[i].isObj /\ values[i].hasPosition
                   THEN values[i].position ELSE i - 1,
      isActive |-> IF values[i].isObj /\ values[i].hasIsActive
                   THEN values[i].isActive ELSE TRUE]]
C10_CreateMapsValues ==
  \A p \in Procs :
    (Done(p, "create") /\ res[p].success)
    => LET want == Expected(req[p].values)
       IN /\ Cardinality(ValuesOf(res[p].optionId)) = Len(want)
          /\ \A i \in 1..Len(want) :
               \E v \in ValuesOf(res[p].optionId) :
                 /\ v.id = nextValueId - Len(want) + i
                 /\ v.value = want[i].value
                 /\ v.position = want[i].position
                 /\ v.isActive = want[i].isActive

\* C11: createOption on a (shop, name) that already exists, or with the same
\* value string twice, fails; a failed createOption persists neither the
\* Option nor any Value: the tables equal the tables before the call.
RepeatsValue(values) ==
  \E i, j \in 1..Len(values) : i # j /\ values[i].value = values[j].value
NameExisted(p) ==
  \E o \in before[p].options : o.shop = req[p].shop /\ o.name = req[p].name
C11_CreateAtomic ==
  \A p \in Procs :
    Done(p, "create")
    => /\ (NameExisted(p) \/ RepeatsValue(req[p].values)) => ~res[p].success
       /\ ~res[p].success => Unchanged(p)
\* Rejected for a repeated value string alone, with other options stored.
C11_Witness ==
  \E p \in Procs :
    /\ Done(p, "create") /\ ~res[p].success
    /\ RepeatsValue(req[p].values) /\ ~NameExisted(p)
    /\ options # {} /\ optionValues # {}

\* C13: after a successful updateOption the ids of the Values the Option owns
\* are disjoint from the ids of the Values it owned before the call, also for
\* a value string that is kept, and the Option keeps its own id.
ValueIds(vals, optionId) == {v.id : v \in {w \in vals : w.variantOptionId = optionId}}
C13_ValueIdsNotStable ==
  \A p \in Procs :
    (Done(p, "update") /\ res[p].success)
    => /\ ValueIds(optionValues, req[p].optionId)
            \cap ValueIds(before[p].optionValues, req[p].optionId) = {}
       /\ res[p].optionId = req[p].optionId
       /\ {o.id : o \in options} = {o.id : o \in before[p].options}
\* An update that keeps a value string the option already had.
C13_Witness ==
  \E p \in Procs :
    /\ Done(p, "update") /\ res[p].success
    /\ \E v \in ValuesOf(req[p].optionId) :
         \E w \in before[p].optionValues :
           w.variantOptionId = req[p].optionId /\ w.value = v.value

\* C14: no step changes the type of an existing Option: after any updateOption
\* or Edit Option request, with any payload, the Option has the type it was
\* created with.
C14_TypeFixed ==
  [][\A o \in options : \A n \in options' : n.id = o.id => n.type = o.type]_vars

\* C12: listOptions(shop) returns exactly the Options of shop, each once, in
\* non-decreasing position, and each with all of its Values, each once, in
\* non-decreasing position, whatever the order of insertion.
NonDecreasing(rows) ==
  \A i, j \in 1..Len(rows) : i < j => rows[i].position <= rows[j].position
Plain(o) ==
  [id |-> o.id, name |-> o.name, type |-> o.type, position |-> o.position,
   isRequired |-> o.isRequired, shop |-> o.shop]
C12_ListSorted ==
  \A p \in Procs :
    (Done(p, "list") /\ res[p].success)
    => LET l == res[p].options
       IN /\ {Plain(o) : o \in Range(l)} = {o \in options : o.shop = req[p].shop}
          /\ Len(l) = Cardinality({o \in options : o.shop = req[p].shop})
          /\ NonDecreasing(l)
          /\ \A i \in 1..Len(l) :
               /\ Range(l[i].values) = ValuesOf(l[i].id)
               /\ Len(l[i].values) = Cardinality(ValuesOf(l[i].id))
               /\ NonDecreasing(l[i].values)
\* Two options of the shop inserted in descending position, one of them with
\* its values inserted in descending position.
C12_Witness ==
  \E p \in Procs :
    /\ Done(p, "list") /\ res[p].success
    /\ \E a, b \in Range(res[p].options) : a.id < b.id /\ a.position > b.position
    /\ \E o \in Range(res[p].options) :
         \E v, w \in ValuesOf(o.id) : v.id < w.id /\ v.position > w.position

\* C15: when the response to an Add, Edit or Delete submission is
\* {success: false, error}, the notification shown once it has arrived
\* contains the error text (and so is no success notification).
C15_FailureSurfaces ==
  [][\A p \in Procs :
       (pc[p] = "done" /\ pc'[p] = "idle" /\ ~ActionResponse(res[p]).success)
       => /\ toastActive'
          /\ toastMessage'.error = ActionResponse(res[p]).error]_vars

\* C16: while a submission is in flight isLoading is true, and no two
\* submissions of the same action are in flight together.
InFlight(p) == pc[p] # "idle"
C16_LoadingWhileInFlight ==
  /\ \A p \in Procs : InFlight(p) => isLoading
  /\ \A p, q \in Procs :
       (p # q /\ InFlight(p) /\ InFlight(q)) => req[p].kind # req[q].kind

\* C18: when getOptions throws during a load, the loader still returns, with
\* an empty options list, and the client's options are set to the empty list.
C18_DegradedLoad ==
  loaderData.threw
  => /\ ~loaderData.failed
     /\ loaderData.options = <<>>
     /\ call.op = "loader" => store = <<>>
\* A failed load although the shop has options with values stored.
C18_Witness ==
  /\ loaderData.threw
  /\ call.op = "loader"
  /\ \E o \in options : o.shop = ClientShop /\ ValuesOf(o.id) # {}

\* C19: toggleValueChecked(optionId, valueName) negates checked on the value
\* named valueName of the option optionId and changes nothing else; when the
\* option or the value does not exist the store is unchanged.
Slots(l) == {<<i, j>> \in (1..Len(l)) \X (1..MaxLen) : j <= Len(l[i].values)}
Named(l, optionId, valueName) ==
  {s \in Slots(l) : l[s[1]].id = optionId /\ l[s[1]].values[s[2]].name = valueName}
SameShape(l, m) ==
  /\ Len(l) = Len(m)
  /\ \A i \in 1..Len(l) :
       /\ [l[i] EXCEPT !.values = <<>>] = [m[i] EXCEPT !.values = <<>>]
       /\ Len(l[i].values) = Len(m[i].values)
       /\ \A j \in 1..Len(l[i].values) :
            [l[i].values[j] EXCEPT !.checked = TRUE]
              = [m[i].values[j] EXCEPT !.checked = TRUE]
C19_ToggleOneValue ==
  call.op = "toggleValueChecked"
  => LET named == Named(call.before, call.optionId, call.valueName)
     IN /\ SameShape(store, call.before)
        /\ Cardinality(named) <= 1
        /\ \A s \in Slots(call.before) :
             store[s[1]].values[s[2]].checked
               = IF s \in named THEN ~call.before[s[1]].values[s[2]].checked
                 ELSE call.before[s[1]].values[s[2]].checked
        /\ named = {} => store = call.before
\* The value exists in the option, and another option has a value of the
\* same name.
C19_Witness ==
  /\ call.op = "toggleValueChecked"
  /\ Named(call.before, call.optionId, call.valueName) # {}
  /\ \E s \in Slots(call.before) :
       /\ call.before[s[1]].id # call.optionId
       /\ call.before[s[1]].values[s[2]].name = call.valueName

\* C20: toggleAllValues(optionId) unchecks every value of the option when all
\* were checked and checks every value otherwise, and leaves the other
\* options alone; so a partially checked option becomes all checked, and a
\* second call makes it all unchecked.
AllChecked(o) == \A j \in 1..Len(o.values) : o.values[j].checked
NoneChecked(o) == \A j \in 1..Len(o.values) : ~o.values[j].checked
C20_ToggleAll ==
  call.op = "toggleAllValues"
  => /\ SameShape(store, call.before)
     /\ \A i \in 1..Len(store) :
          IF call.before[i].id = call.optionId
          THEN IF AllChecked(call.before[i])
               THEN NoneChecked(store[i]) ELSE AllChecked(store[i])
          ELSE store[i] = call.before[i]
     /\ \A i \in 1..Len(store) :
          (store[i].id = call.optionId /\ AllChecked(store[i]))
          => NoneChecked(ToggleAllValues(store, call.optionId)[i])
\* A partially checked option has become all checked.
C20_Witness ==
  /\ call.op = "toggleAllValues"
  /\ \E i \in 1..Len(store) :
       /\ call.before[i].id = call.optionId
       /\ ~AllChecked(call.before[i]) /\ ~NoneChecked(call.before[i])
       /\ AllChecked(store[i])

\* C17: a persistence call that fails throws to its caller, and the action
\* answers every Add, Edit or Delete request whose persistence call or
\* payload parsing failed with {success: false, error}: never with success
\* true and never by letting the error escape.
C17_ErrorsConverted ==
  \A p \in Procs :
    (pc[p] = "done" /\ ~res[p].success)
    => /\ res[p].error # ""
       /\ req[p].kind # "list"
          => LET answer == ActionResponse(res[p])
             IN /\ answer.status = "json"
                /\ ~answer.success
                /\ answer.error # ""
\* An Edit Option request whose payload does not parse, thrown outside the
\* try block of its actionType, with options stored.
C17_Witness ==
  \E p \in Procs :
    /\ pc[p] = "done" /\ ~res[p].success
    /\ req[p].kind = "Edit Option" /\ res[p].thrownIn = "action"
    /\ options # {}

\* C21: addOption(o) with an o that has an id leaves exactly one entry of
\* that id, equal to o: appended at the end when the id was not listed, put
\* in the place of the listed entry otherwise, the length and the other
\* entries unchanged; a second addOption with the same id again leaves
\* exactly one entry of that id, equal to the second argument.
WithId(l, id) == {i \in 1..Len(l) : l[i].id = id}
ValidArg(arg) == arg.defined /\ arg.option.id # 0
UpsertedInto(old, new, o) ==
  IF WithId(old, o.id) = {}
  THEN new = Append(old, o)
  ELSE /\ Len(new) = Len(old)
       /\ \A i \in 1..Len(old) : new[i] = IF i \in WithId(old, o.id) THEN o ELSE old[i]
C21_AddOptionUpsert ==
  (call.op = "addOption" /\ ValidArg(call.arg))
  => LET o == call.arg.option
     IN /\ ~call.threw
        /\ Cardinality(WithId(store, o.id)) = 1
        /\ \A i \in WithId(store, o.id) : store[i] = o
        /\ UpsertedInto(call.before, store, o)
        /\ \A second \in StoreOptions :
             second.id = o.id
             => LET twice == AddOptionTo(store, Passed(second))
                IN /\ ~twice.threw
                   /\ Len(twice.options) = Len(store)
                   /\ Cardinality(WithId(twice.options, o.id)) = 1
                   /\ \A i \in WithId(twice.options, o.id) : twice.options[i] = second
\* The id was listed first of two, with other content.
C21_Witness ==
  /\ call.op = "addOption" /\ ValidArg(call.arg)
  /\ Len(call.before) = 2
  /\ call.before[1].id = call.arg.option.id
  /\ call.before[1] # call.arg.option
  /\ store[1] = call.arg.option

\* C22: updateOption(updated) puts updated in the place of the entry of its
\* id and leaves every other entry as it was; when no entry has that id,
\* updated is appended at the end and the entries before it are unchanged.
C22_UpdateOptionUpsert ==
  (call.op = "updateOption" /\ ValidArg(call.arg))
  => /\ ~call.threw
     /\ UpsertedInto(call.before, store, call.arg.option)
\* No entry had the id: the option was appended to a non-empty list.
C22_Witness ==
  /\ call.op = "updateOption" /\ ValidArg(call.arg)
  /\ Len(call.before) = 1
  /\ WithId(call.before, call.arg.option.id) = {}
  /\ Len(store) = 2 /\ store[2] = call.arg.option

\* C23: removeOptions(ids), for one id or a list of ids, keeps exactly the
\* entries whose id is not among ids, unchanged and in their order; ids that
\* name no entry change nothing.
GivenIds(ids) == IF ids.isArray THEN Range(ids.list) ELSE {ids.id}
IndexIn(l, o) == CHOOSE i \in 1..Len(l) : l[i] = o
C23_RemoveOptions ==
  call.op = "removeOptions"
  => LET ids == GivenIds(call.ids)
     IN /\ ~call.threw
        /\ Range(store) = {o \in Range(call.before) : o.id \notin ids}
        /\ Len(store) = Cardinality(Range(store))
        /\ \A i, j \in 1..Len(store) :
             i < j => IndexIn(call.before, store[i]) < IndexIn(call.before, store[j])
        /\ (\A o \in Range(call.before) : o.id \notin ids) => store = call.before
\* A single id, not in a list, removed the first of two entries.
C23_Witness ==
  /\ call.op = "removeOptions"
  /\ ~call.ids.isArray
  /\ Len(call.before) = 2
  /\ call.before[1].id = call.ids.id
  /\ store = <<call.before[2]>>

\* C24: addOption and updateOption called with no argument or with an object
\* that has no id, and removeOptions called with an empty list, return
\* without throwing and leave the store as it was.
InvalidCall ==
  \/ call.op \in {"addOption", "updateOption"} /\ ~ValidArg(call.arg)
  \/ call.op = "removeOptions" /\ call.ids.isArray /\ call.ids.list = <<>>
C24_InvalidCallsIgnored ==
  InvalidCall => (~call.threw /\ store = call.before)
\* addOption was called without an argument on a non-empty store.
C24_Witness ==
  /\ call.op = "addOption"
  /\ ~call.arg.defined
  /\ call.before # <<>>
  /\ store = call.before

\* C25: updateOptionObject returns an option with the id of the original and
\* with one value per new name, in the given order: checked as the original
\* value of that name when there is one, checked otherwise; a value of the
\* original whose name is not among the new names is not in the result.
CheckedIn(o, name) == {v.checked : v \in {w \in Range(o.values) : w.name = name}}
C25_UpdateOptionObject ==
  call.op = "updateOptionObject"
  => LET original == call.arg.option
         result == call.result
     IN /\ result.id = original.id
        /\ Len(result.values) = Len(call.names)
        /\ \A j \in 1..Len(call.names) :
             /\ result.values[j].name = call.names[j]
             /\ IF CheckedIn(original, call.names[j]) = {}
                THEN result.values[j].checked
                ELSE result.values[j].checked \in CheckedIn(original, call.names[j])
        /\ \A v \in Range(original.values) :
             v.name \notin Range(call.names)
             => \A w \in Range(result.values) : w.name # v.name
\* Original [Red, Blue (unchecked)], new names [Red, Green]: Red keeps its
\* state, Green is checked, Blue is gone.
C25_Witness ==
  /\ call.op = "updateOptionObject"
  /\ call.names = <<"Red", "Green">>
  /\ Len(call.arg.option.values) = 2
  /\ call.arg.option.values[1].name = "Red"
  /\ call.arg.option.values[2] = [name |-> "Blue", checked |-> FALSE, position |-> 1]
  /\ call.result.values =
       <<[name |-> "Red", checked |-> call.arg.option.values[1].checked],
         [name |-> "Green", checked |-> TRUE]>>

C27_Reconciled ==
  call.op = "sync" => store = TransformOptions(loaderData.options)
\* The copy held an option with an unchecked value; the new result is empty.
C27_Witness ==
  /\ call.op = "sync"
  /\ \E o \in Range(call.before) : \E v \in Range(o.values) : ~v.checked
  /\ loaderData.options = <<>>
  /\ store = <<>>

\* C30: every option of the store has the isRequired of the persisted Option
\* it was loaded from, true or false.
C30_IsRequiredKept ==
  (call.op = "loader" /\ ~loaderData.threw)
  => \A i \in 1..Len(store) :
       \A o \in options : o.id = store[i].id => store[i].isRequired = o.isRequired

\* C28: a value that is unchecked in the store when its option is edited,
\* and that the edit keeps, is still unchecked after the store is loaded
\* again once the Edit Option request has succeeded.
KeptUnchecked(p) ==
  {v.name : v \in {w \in UNION {Range(o.values) : o \in {x \in Range(store) :
                                                          x.id = req[p].optionId}} :
                     ~w.checked /\ w.name \in {e.value : e \in Range(req[p].values)}}}
C28_UncheckedSurvivesEdit ==
  [][\A p \in Procs :
       (Done(p, "update") /\ res[p].success /\ call'.op = "loader" /\ ~loaderData'.threw)
       => \A name \in KeptUnchecked(p) :
            \A o \in Range(store') :
              o.id = req[p].optionId
              => \A v \in Range(o.values) : v.name = name => ~v.checked]_vars

\* C29: once the user has stopped changing the query, at most one
\* search-products submission is sent: the reload that follows the answer to
\* a submission does not lead to another one.
C29_SearchesQuiesce == sent <= 1

====
